---------------------------- MODULE Spec2Model ----------------------------
(***************************************************************************)
(* Model of app.py: the /generate-leads request handler, the extraction    *)
(* of a JSON object from the agent's text (extract_json_from_response),    *)
(* its decoding (json.loads) and its validation against the pydantic       *)
(* models Lead and LeadList.                                               *)
(*                                                                         *)
(* Texts are sequences of tokens.  A token is one lexical unit of the      *)
(* agent's output: the triple backtick, the tag json, one whitespace       *)
(* character, one run of prose, a brace, a bracket, a comma, a colon, a    *)
(* JSON string literal, a JSON number or the JSON literal null.            *)
(***************************************************************************)
EXTENDS Integers, Sequences, FiniteSets, TLC

(***************************************************************************)
(* Bounds of the model.                                                    *)
(***************************************************************************)
\* longest agent text enumerated exhaustively over CoreAlphabet
MaxLen == 4
\* longest leads array built from SmallElems
MaxLeads == 2

(***************************************************************************)
(* Tokens.                                                                 *)
(***************************************************************************)
\* the triple backtick (written with quotes: a string of the model holds no backtick)
FENCE == "'''"
TAG == "json"
WS == " "
PROSE == "prose"
LBRACE == "{"
RBRACE == "}"
LBRACKET == "["
RBRACKET == "]"
COMMA == ","
COLON == ":"
NULLTOK == "null"

\* JSON string literals (with their quotes) and the text each one denotes
Unquote ==
    [t \in {"\"leads\"", "\"name\"", "\"address\"", "\"phone\"", "\"website\"",
            "\"confidence_score\"", "\"source\"", "\"note\"", "\"\"",
            "\"Acme Co\"", "\"http://acme.example\"", "\"High\"",
            "\"123 Main St\"", "\"555-0100\"", "\"http://acme.example/home\""}
       |-> CASE t = "\"leads\"" -> "leads"
             [] t = "\"name\"" -> "name"
             [] t = "\"address\"" -> "address"
             [] t = "\"phone\"" -> "phone"
             [] t = "\"website\"" -> "website"
             [] t = "\"confidence_score\"" -> "confidence_score"
             [] t = "\"source\"" -> "source"
             [] t = "\"note\"" -> "note"
             [] t = "\"\"" -> ""
             [] t = "\"Acme Co\"" -> "Acme Co"
             [] t = "\"http://acme.example\"" -> "http://acme.example"
             [] t = "\"High\"" -> "High"
             [] t = "\"123 Main St\"" -> "123 Main St"
             [] t = "\"555-0100\"" -> "555-0100"
             [] t = "\"http://acme.example/home\"" -> "http://acme.example/home"]

StrTokens == DOMAIN Unquote
NumTokens == {"5", "0"}

(***************************************************************************)
(* Decoded values (Python objects): every value is a record with a type    *)
(* tag t and a payload v.  None, which is also what JSON null decodes to,  *)
(* is PyNone; a dict is a function from keys to values; a list is a        *)
(* sequence of values.                                                     *)
(***************************************************************************)
PyNone == [t |-> "null", v |-> "None"]
Str(s) == [t |-> "str", v |-> s]
Num(s) == [t |-> "num", v |-> s]
Arr(s) == [t |-> "arr", v |-> s]
Obj(f) == [t |-> "obj", v |-> f]
EmptyDict == Obj(<<>>)

\* Python truthiness of a decoded value: `not x` is ~Truthy(x)
Truthy(x) ==
    CASE x.t = "null" -> FALSE
      [] x.t = "str" -> x.v # ""
      [] x.t = "num" -> x.v # "0"
      [] x.t = "arr" -> Len(x.v) > 0
      [] x.t = "obj" -> DOMAIN x.v # {}

(***************************************************************************)
(* json.loads: a recursive-descent decoder over the tokens.                *)
(***************************************************************************)
\* the first position from i on that holds no whitespace (Len(s)+1: none)
RECURSIVE SkipWs(_, _)
SkipWs(s, i) ==
    IF i <= Len(s) /\ s[i] = WS THEN SkipWs(s, i + 1) ELSE i

Fail == [ok |-> FALSE, val |-> PyNone, next |-> 0]

RECURSIVE ParseValue(_, _)
RECURSIVE ParseMembers(_, _, _)
RECURSIVE ParseElements(_, _, _)

\* the members of an object, from the key at position i; acc: those read so far
ParseMembers(s, i, acc) ==
    IF i > Len(s) \/ s[i] \notin StrTokens THEN Fail
    ELSE LET c == SkipWs(s, i + 1) IN
         IF c > Len(s) \/ s[c] # COLON THEN Fail
         ELSE LET r == ParseValue(s, SkipWs(s, c + 1)) IN
              IF ~r.ok THEN Fail
              ELSE LET m == SkipWs(s, r.next)
                       \* a repeated key keeps its last value
                       acc2 == (Unquote[s[i]] :> r.val) @@ acc
                   IN  IF m > Len(s) THEN Fail
                       ELSE IF s[m] = RBRACE
                            THEN [ok |-> TRUE, val |-> Obj(acc2), next |-> m + 1]
                       ELSE IF s[m] = COMMA
                            THEN ParseMembers(s, SkipWs(s, m + 1), acc2)
                       ELSE Fail

\* the elements of an array, from the value at position i
ParseElements(s, i, acc) ==
    LET r == ParseValue(s, i) IN
    IF ~r.ok THEN Fail
    ELSE LET m == SkipWs(s, r.next)
             acc2 == Append(acc, r.val)
         IN  IF m > Len(s) THEN Fail
             ELSE IF s[m] = RBRACKET
                  THEN [ok |-> TRUE, val |-> Arr(acc2), next |-> m + 1]
             ELSE IF s[m] = COMMA
                  THEN ParseElements(s, SkipWs(s, m + 1), acc2)
             ELSE Fail

\* one JSON value starting at position i
ParseValue(s, i) ==
    IF i > Len(s) THEN Fail
    ELSE IF s[i] \in StrTokens
         THEN [ok |-> TRUE, val |-> Str(Unquote[s[i]]), next |-> i + 1]
    ELSE IF s[i] \in NumTokens
         THEN [ok |-> TRUE, val |-> Num(s[i]), next |-> i + 1]
    ELSE IF s[i] = NULLTOK
         THEN [ok |-> TRUE, val |-> PyNone, next |-> i + 1]
    ELSE IF s[i] = LBRACE
         THEN LET j == SkipWs(s, i + 1) IN
              IF j <= Len(s) /\ s[j] = RBRACE
              THEN [ok |-> TRUE, val |-> EmptyDict, next |-> j + 1]
              ELSE ParseMembers(s, j, <<>>)
    ELSE IF s[i] = LBRACKET
         THEN LET j == SkipWs(s, i + 1) IN
              IF j <= Len(s) /\ s[j] = RBRACKET
              THEN [ok |-> TRUE, val |-> Arr(<<>>), next |-> j + 1]
              ELSE ParseElements(s, j, <<>>)
    ELSE Fail

\* json.loads(s): ok is FALSE where it raises JSONDecodeError
json_loads(s) ==
    LET r == ParseValue(s, SkipWs(s, 1)) IN
    IF r.ok /\ SkipWs(s, r.next) = Len(s) + 1
    THEN [ok |-> TRUE, val |-> r.val]
    ELSE [ok |-> FALSE, val |-> PyNone]

(***************************************************************************)
(* extract_json_from_response.                                             *)
(***************************************************************************)
\* where the lazy group \{[\s\S]*?\} that opens at s can close: a closing
\* brace after s that only whitespace separates from a triple backtick
ClosesAt(text, s) ==
    {k \in (s + 1)..Len(text) :
        /\ text[k] = RBRACE
        /\ SkipWs(text, k + 1) <= Len(text)
        /\ text[SkipWs(text, k + 1)] = FENCE}

Min(S) == CHOOSE x \in S : \A y \in S : x <= y
Max(S) == CHOOSE x \in S : \A y \in S : x >= y

\* MatchAt with a greedy group: it closes at the last closing brace it can
MatchAtGreedy(text, p) ==
    IF text[p] # FENCE THEN <<0, 0>>
    ELSE LET q == IF p + 1 <= Len(text) /\ text[p + 1] = TAG
                  THEN p + 2 ELSE p + 1
             s == SkipWs(text, q)
         IN  IF s <= Len(text) /\ text[s] = LBRACE /\ ClosesAt(text, s) # {}
             THEN <<s, Max(ClosesAt(text, s))>>
             ELSE <<0, 0>>

\* the pattern ```(json)?\s*(\{[\s\S]*?\})\s*``` tried at position p: the
\* span <<first, last>> of its group 2, <<0, 0>> when it does not match
MatchAt(text, p) ==
    IF text[p] # FENCE THEN <<0, 0>>
    ELSE LET q == IF p + 1 <= Len(text) /\ text[p + 1] = TAG
                  THEN p + 2 ELSE p + 1
             s == SkipWs(text, q)
         IN  IF s <= Len(text) /\ text[s] = LBRACE /\ ClosesAt(text, s) # {}
             THEN <<s, Min(ClosesAt(text, s))>>
             ELSE <<0, 0>>

\* re.search: the match at the leftmost position that has one
re_search(text) ==
    LET starts == {p \in 1..Len(text) : MatchAt(text, p) # <<0, 0>>} IN
    IF starts = {} THEN <<0, 0>> ELSE MatchAt(text, Min(starts))

\* text.find('{') and text.rfind('}'), 1-based; 0 stands for Python's -1
find(text, c) ==
    LET at == {i \in 1..Len(text) : text[i] = c} IN
    IF at = {} THEN 0 ELSE Min(at)

\* rfind that searches from the left, as find does
rfindFirst(text, c) ==
    LET at == {i \in 1..Len(text) : text[i] = c} IN
    IF at = {} THEN 0 ELSE Min(at)

rfind(text, c) ==
    LET at == {i \in 1..Len(text) : text[i] = c} IN
    IF at = {} THEN 0 ELSE Max(at)

\* lines 70-81: the string handed to json.loads; found is FALSE where the
\* function returns None before decoding
ExtractCandidate(text) ==
    LET match == re_search(text)
        start == find(text, LBRACE)
        end == rfind(text, RBRACE)
    IN  IF match # <<0, 0>>
        THEN [found |-> TRUE, json_str |-> SubSeq(text, match[1], match[2])]
        ELSE IF start # 0 /\ end # 0 /\ end > start
             THEN [found |-> TRUE, json_str |-> SubSeq(text, start, end)]
             ELSE [found |-> FALSE, json_str |-> <<>>]

\* lines 83-87: the decoded value, None where json.loads raises
DecodeCandidate(json_str) ==
    LET r == json_loads(json_str) IN IF r.ok THEN r.val ELSE PyNone

\* the function's local json_str and the value it returns
ExtractAndDecode(text) ==
    LET c == ExtractCandidate(text) IN
    [candidate |-> c,
     value |-> IF c.found THEN DecodeCandidate(c.json_str) ELSE PyNone]

extract_json_from_response(text) == ExtractAndDecode(text).value

(***************************************************************************)
(* The pydantic models Lead and LeadList.  pydantic 1 coerces a number     *)
(* given for a str field to its text; pydantic 2 rejects it.  The module   *)
(* runs under either (it imports pydantic unpinned), so the version is     *)
(* part of the environment the process starts in.                          *)
(***************************************************************************)
PydanticVersions == {"v1", "v2"}

\* the fields of Lead in declaration order, and those without a default
FieldOrder == <<"name", "address", "phone", "website", "confidence_score", "source">>
FieldNames == {FieldOrder[i] : i \in DOMAIN FieldOrder}
\* RequiredFields with confidence_score given a default
RequiredFieldsNoScore == {"name", "source"}
RequiredFields == {"name", "confidence_score", "source"}
\* FieldDefault with default=None
FieldDefaultNone == PyNone
FieldDefault == Str("N/A")

\* ValidateField with the required fields declared Optional[str]: null passes
ValidateFieldNullOk(d, f, version) ==
    IF f \notin DOMAIN d
    THEN IF f \in RequiredFields
         THEN [ok |-> FALSE, val |-> PyNone]
         ELSE [ok |-> TRUE, val |-> FieldDefault]
    ELSE LET x == d[f] IN
         CASE x.t = "str" -> [ok |-> TRUE, val |-> x]
           [] x.t = "null" -> [ok |-> TRUE, val |-> PyNone]
           [] x.t = "num" -> IF version = "v1"
                             THEN [ok |-> TRUE, val |-> Str(x.v)]
                             ELSE [ok |-> FALSE, val |-> PyNone]
           [] OTHER -> [ok |-> FALSE, val |-> PyNone]

\* one field of one element d (a dict): the value the Lead gets, or no value
ValidateField(d, f, version) ==
    IF f \notin DOMAIN d
    THEN IF f \in RequiredFields
         THEN [ok |-> FALSE, val |-> PyNone]
         ELSE [ok |-> TRUE, val |-> FieldDefault]
    ELSE LET x == d[f] IN
         CASE x.t = "str" -> [ok |-> TRUE, val |-> x]
           [] x.t = "null" -> [ok |-> f \notin RequiredFields, val |-> PyNone]
           [] x.t = "num" -> IF version = "v1"
                             THEN [ok |-> TRUE, val |-> Str(x.v)]
                             ELSE [ok |-> FALSE, val |-> PyNone]
           [] OTHER -> [ok |-> FALSE, val |-> PyNone]

\* LeadErrors that stops at the first field in error
LeadErrorsFirst(elem, i, version) ==
    IF elem.t # "obj" THEN << <<"leads", i>> >>
    ELSE LET bad == SelectSeq(FieldOrder,
                        LAMBDA f : ~ValidateField(elem.v, f, version).ok)
         IN  IF bad = <<>> THEN <<>> ELSE << <<"leads", i, bad[1]>> >>

\* the errors of element i (0-based, as pydantic numbers them), each the
\* path ("leads", i, field) or ("leads", i), in field order
LeadErrors(elem, i, version) ==
    IF elem.t # "obj" THEN << <<"leads", i>> >>
    ELSE LET bad == SelectSeq(FieldOrder,
                        LAMBDA f : ~ValidateField(elem.v, f, version).ok)
         IN  [k \in DOMAIN bad |-> <<"leads", i, bad[k]>>]

\* the Lead built from a valid element: every field is present
Lead(elem, version) ==
    [f \in FieldNames |-> ValidateField(elem.v, f, version).val]

RECURSIVE AllLeadErrors(_, _, _)
AllLeadErrors(elems, n, version) ==
    IF n = 0 THEN <<>>
    ELSE AllLeadErrors(elems, n - 1, version)
            \o LeadErrors(elems[n], n - 1, version)

\* LeadList(**json_data): the validated leads, or every error found
LeadList(json_data, version) ==
    IF "leads" \notin DOMAIN json_data.v \/ json_data.v["leads"].t # "arr"
    THEN [ok |-> FALSE, leads |-> <<>>, errors |-> << <<"leads">> >>]
    ELSE LET elems == json_data.v["leads"].v
             errs == AllLeadErrors(elems, Len(elems), version)
         IN  IF errs # <<>>
             THEN [ok |-> FALSE, leads |-> <<>>, errors |-> errs]
             ELSE [ok |-> TRUE,
                   leads |-> [k \in DOMAIN elems |-> Lead(elems[k], version)],
                   errors |-> <<>>]

(***************************************************************************)
(* Module start-up (lines 44-60): the agent is built once, from the        *)
(* environment; it stays None without the search credential or when its    *)
(* construction raises.                                                    *)
(***************************************************************************)
KeyValues == {"unset", "", "serpapi-key"}

\* os.getenv("SERPAPI_API_KEY"): None when the variable is not set
getenv(key) == IF key = "unset" THEN PyNone ELSE Str(key)

StartupAgent(key, constructionRaises) ==
    IF ~Truthy(getenv(key)) THEN "None"
    ELSE IF constructionRaises THEN "None"
    ELSE "AgentExecutor"

(***************************************************************************)
(* Requests.  kind "json": a body that parses as JSON to val, sent as      *)
(* application/json; "malformed": a body of that content type that does    *)
(* not parse; "nojson": a request of another content type, or none.        *)
(***************************************************************************)
BodyValues ==
    { PyNone, EmptyDict, Arr(<<>>), Arr(<<Str("cafes")>>), Str("cafes"),
      Num("5"), Num("0"),
      Obj([business_type |-> Str("cafes"), location |-> Str("Paris")]),
      Obj([business_type |-> Str(""), location |-> Str("Paris")]),
      Obj([business_type |-> Str("cafes"), location |-> Str("")]),
      Obj([business_type |-> Str("cafes")]),
      Obj([location |-> Str("Paris")]),
      Obj([business_type |-> PyNone, location |-> Str("Paris")]),
      Obj([business_type |-> Num("0"), location |-> Str("Paris")]),
      Obj([business_type |-> Num("5"), location |-> Str("Paris")]),
      Obj([business_type |-> Str("cafes"), location |-> Arr(<<>>)]) }

Requests ==
    {[kind |-> "json", val |-> b] : b \in BodyValues}
        \cup {[kind |-> "malformed", val |-> PyNone],
              [kind |-> "nojson", val |-> PyNone]}

\* request.get_json(): what it can do with the request.  It raises
\* BadRequest on a body that does not parse; for another content type it
\* returns None (Flask before 2.1) or raises (Flask 2.1 and later).
get_json(req) ==
    CASE req.kind = "json" -> {[raised |-> FALSE, data |-> req.val]}
      [] req.kind = "malformed" -> {[raised |-> TRUE, data |-> PyNone]}
      [] req.kind = "nojson" -> {[raised |-> FALSE, data |-> PyNone],
                                 [raised |-> TRUE, data |-> PyNone]}

\* dict.get(key): None for a missing key
Get(d, key) == IF key \in DOMAIN d.v THEN d.v[key] ELSE PyNone

(***************************************************************************)
(* Responses: the status and the JSON body (keys: the keys it holds).      *)
(***************************************************************************)
NoResponse ==
    [status |-> 0, keys |-> {}, error |-> "", leads |-> <<>>, details |-> <<>>]

ErrorResponse(status, message) ==
    [status |-> status, keys |-> {"error"}, error |-> message,
     leads |-> <<>>, details |-> <<>>]

\* AgentReady without the check
AgentReadyAlways(a) == TRUE

\* line 100: `if not agent`
AgentReady(a) == a # "None"

\* line 105: `if not data`
PayloadPresent(data) == Truthy(data)

\* line 110: `if not (business_type and location)`
FieldsPresent(business_type, location) ==
    Truthy(business_type) /\ Truthy(location)

\* lines 100-128, up to the call of agent.run: a response, or the prompt's
\* inputs when the agent is to be called
BeforeAgent(a, gj) ==
    IF ~AgentReady(a)
    THEN [call |-> FALSE, stages |-> <<"Init">>,
          response |-> ErrorResponse(503, "Agent not initialized. Check server logs.")]
    ELSE IF gj.raised
    THEN \* except Exception (line 144)
         [call |-> FALSE, stages |-> <<"Init", "ParseRequest">>,
          response |-> ErrorResponse(500, "An internal server error occurred.")]
    ELSE IF ~PayloadPresent(gj.data)
    THEN [call |-> FALSE, stages |-> <<"Init", "ParseRequest">>,
          response |-> ErrorResponse(400, "Invalid JSON payload.")]
    ELSE IF gj.data.t # "obj"
    THEN \* data.get raises AttributeError: except Exception (line 144)
         [call |-> FALSE, stages |-> <<"Init", "ParseRequest">>,
          response |-> ErrorResponse(500, "An internal server error occurred.")]
    ELSE IF ~FieldsPresent(Get(gj.data, "business_type"), Get(gj.data, "location"))
    THEN [call |-> FALSE, stages |-> <<"Init", "ParseRequest">>,
          response |-> ErrorResponse(400,
                          "Missing 'business_type' or 'location' in request.")]
    ELSE [call |-> TRUE, stages |-> <<"Init", "ParseRequest", "Invoke">>,
          response |-> NoResponse]

\* JsonDataPresent without the check
JsonDataPresentAlways(json_data) == TRUE

\* line 131: `if not json_data`
JsonDataPresent(json_data) == Truthy(json_data)

\* lines 136-143: validation and the response made of its result
ValidateAndRespond(json_data, version) ==
    IF json_data.t # "obj"
    THEN \* LeadList(**json_data) raises TypeError: except Exception
         ErrorResponse(500, "An internal server error occurred.")
    ELSE LET validated == LeadList(json_data, version) IN
         IF validated.ok
         THEN [status |-> 200, keys |-> {"leads"}, error |-> "",
               leads |-> validated.leads, details |-> <<>>]
         ELSE [status |-> 502, keys |-> {"error", "details"},
               error |-> "Agent returned data in an invalid structure.",
               leads |-> <<>>, details |-> validated.errors]

\* lines 129-143: the stages run on the agent's text and the response
AfterAgent(text, version) ==
    LET cand == ExtractAndDecode(text).candidate
        data == extract_json_from_response(text)
        decoded == IF cand.found THEN <<"Extract", "Decode">> ELSE <<"Extract">>
    IN  IF ~JsonDataPresent(data)
        THEN [stages |-> decoded, json_str |-> cand, json_data |-> data,
              response |-> ErrorResponse(502, "Agent returned a non-JSON response.")]
        ELSE LET r == ValidateAndRespond(data, version) IN
             [stages |-> decoded \o (IF r.status = 200
                                     THEN <<"Validate", "Success">>
                                     ELSE <<"Validate">>),
              json_str |-> cand, json_data |-> data, response |-> r]

(***************************************************************************)
(* The agent's texts.  agent.run returns free text; the model draws it     *)
(* from every token sequence up to MaxLen over CoreAlphabet, from JSON     *)
(* payloads {"leads": [...]} in several wrappers, and from OtherTexts.     *)
(***************************************************************************)
CoreAlphabet == {FENCE, TAG, WS, PROSE, LBRACE, RBRACE}

ShortTexts == UNION {[1..n -> CoreAlphabet] : n \in 0..MaxLen}

Quote(str) == CHOOSE t \in StrTokens : Unquote[t] = str

\* An element is described by the token each field has; ABSENT: no such key
ABSENT == "absent"

RECURSIVE MemberTokens(_, _)
MemberTokens(d, n) ==
    IF n = 0 THEN <<>>
    ELSE LET before == MemberTokens(d, n - 1)
             f == FieldOrder[n]
         IN  IF d[f] = ABSENT THEN before
             ELSE (IF before = <<>> THEN <<>> ELSE before \o <<COMMA>>)
                     \o <<Quote(f), COLON, d[f]>>

ElemTokens(d) == <<LBRACE>> \o MemberTokens(d, Len(FieldOrder)) \o <<RBRACE>>

RECURSIVE JoinElems(_, _)
JoinElems(ds, n) ==
    IF n = 0 THEN <<>>
    ELSE (IF n = 1 THEN <<>> ELSE JoinElems(ds, n - 1) \o <<COMMA>>)
            \o ElemTokens(ds[n])

\* {"leads": [ ... ]}
Payload(ds) ==
    <<LBRACE, Quote("leads"), COLON, LBRACKET>> \o JoinElems(ds, Len(ds))
        \o <<RBRACKET, RBRACE>>

Elem6(name, address, phone, website, confidence_score, source) ==
    [f \in FieldNames |->
        CASE f = "name" -> name
          [] f = "address" -> address
          [] f = "phone" -> phone
          [] f = "website" -> website
          [] f = "confidence_score" -> confidence_score
          [] f = "source" -> source]

\* every combination of the fields' values, for arrays of one element
AllElems ==
    { Elem6(n, a, p, w, c, s) :
        n \in {ABSENT, Quote("Acme Co"), Quote(""), NULLTOK, "5"},
        a \in {ABSENT, Quote("123 Main St"), NULLTOK},
        p \in {ABSENT, Quote("555-0100")},
        w \in {ABSENT, Quote("http://acme.example/home")},
        c \in {ABSENT, Quote("High")},
        s \in {ABSENT, Quote("http://acme.example"), Quote("")} }

Elem(name, address, confidence_score, source) ==
    Elem6(name, address, ABSENT, ABSENT, confidence_score, source)

\* the elements the longer arrays are made of
SmallElems ==
    { Elem(Quote("Acme Co"), Quote("123 Main St"), Quote("High"),
           Quote("http://acme.example")),
      Elem(Quote("Acme Co"), ABSENT, Quote("High"), Quote("http://acme.example")),
      Elem(Quote("Acme Co"), ABSENT, ABSENT, Quote("http://acme.example")),
      Elem(ABSENT, ABSENT, Quote("High"), Quote("http://acme.example")),
      Elem(Quote("Acme Co"), ABSENT, Quote("High"), ABSENT),
      Elem(ABSENT, Quote("123 Main St"), ABSENT, ABSENT),
      Elem(Quote(""), ABSENT, Quote("High"), Quote("http://acme.example")) }

LeadArrays ==
    {<<d>> : d \in AllElems}
        \cup UNION {[1..n -> SmallElems] : n \in 0..MaxLeads}

\* the wrappers a payload comes in
Plain(p) == p
FencedJson(p) == <<PROSE, WS, FENCE, TAG, WS>> \o p \o <<WS, FENCE>>
FencedUntagged(p) == <<FENCE, WS>> \o p \o <<FENCE, WS, PROSE>>

PayloadTexts ==
    UNION {{Plain(Payload(ds)), FencedJson(Payload(ds)), FencedUntagged(Payload(ds))}
              : ds \in LeadArrays}

GoodElem ==
    Elem(Quote("Acme Co"), ABSENT, Quote("High"), Quote("http://acme.example"))

\* payloads of another shape, malformed payloads, and texts of several blocks
OtherTexts ==
    { <<LBRACE, Quote("note"), COLON, LBRACKET, RBRACKET, RBRACE>>,
      <<LBRACE, Quote("leads"), COLON, NULLTOK, RBRACE>>,
      <<LBRACE, Quote("leads"), COLON, LBRACE, RBRACE, RBRACE>>,
      <<LBRACE, Quote("leads"), COLON, Quote("Acme Co"), RBRACE>>,
      <<LBRACE, Quote("leads"), COLON, LBRACKET, NULLTOK, RBRACKET, RBRACE>>,
      <<LBRACE, Quote("leads"), COLON, LBRACKET, "5", COMMA>>
          \o ElemTokens(GoodElem) \o <<RBRACKET, RBRACE>>,
      <<LBRACE, Quote("note"), COLON, Quote("High"), COMMA, Quote("leads"), COLON,
        LBRACKET>> \o ElemTokens(GoodElem) \o <<RBRACKET, RBRACE>>,
      \* truncated, trailing comma, prose inside
      SubSeq(Payload(<<GoodElem>>), 1, Len(Payload(<<GoodElem>>)) - 1),
      <<LBRACE, Quote("leads"), COLON, LBRACKET>> \o ElemTokens(GoodElem)
          \o <<COMMA, RBRACKET, RBRACE>>,
      <<PROSE, LBRACE, PROSE, RBRACE>>,
      \* prose with braces around a fenced json block
      <<LBRACE, PROSE, RBRACE, WS>> \o FencedJson(Payload(<<GoodElem>>))
          \o <<WS, LBRACE, RBRACE>>,
      \* an untagged block of no JSON before the json block
      <<FENCE, LBRACE, PROSE, RBRACE, FENCE, WS>> \o FencedJson(Payload(<<GoodElem>>)),
      \* a closing fence followed by braces before the json block
      <<FENCE, PROSE, FENCE, WS, LBRACE, PROSE, RBRACE, WS>>
          \o FencedJson(Payload(<<GoodElem>>)),
      \* two json blocks
      FencedJson(Payload(<<>>)) \o <<WS>> \o FencedJson(Payload(<<GoodElem>>)),
      \* a json block that holds an array
      <<FENCE, TAG, WS, LBRACKET>> \o ElemTokens(GoodElem) \o <<RBRACKET, WS, FENCE>>,
      \* a json block that holds a nested object
      FencedJson(<<LBRACE, Quote("note"), COLON, LBRACE, RBRACE, COMMA,
                   Quote("leads"), COLON, LBRACKET>> \o ElemTokens(GoodElem)
                   \o <<RBRACKET, RBRACE>>) }

AgentTexts == ShortTexts \cup PayloadTexts \cup OtherTexts

(***************************************************************************)
(* The state.                                                              *)
(***************************************************************************)
VARIABLES
    SERPAPI_API_KEY,  \* the environment at start-up
    pydantic,         \* the pydantic the process imported: "v1" or "v2"
    agent,            \* the module's global: "None" or "AgentExecutor"
    pc,               \* "idle", "invoking" (inside agent.run) or "done"
    request,          \* the request being handled
    response_text,    \* what agent.run returned
    json_str,         \* the candidate extract_json_from_response decodes
    json_data,        \* the decoded value the handler validates
    response,         \* the response returned for the request
    stages,           \* the stages the handler has run for the request
    invocations,      \* calls of agent.run made for the request
    responses         \* responses returned for the request

vars == <<SERPAPI_API_KEY, pydantic, agent, pc, request, response_text, json_str,
          json_data, response, stages, invocations, responses>>

NoCandidate == [found |-> FALSE, json_str |-> <<>>]
NoRequest == [kind |-> "none", val |-> PyNone]

Init ==
    /\ SERPAPI_API_KEY \in KeyValues
    /\ pydantic \in PydanticVersions
    /\ \E constructionRaises \in BOOLEAN :
          agent = StartupAgent(SERPAPI_API_KEY, constructionRaises)
    /\ pc = "idle"
    /\ request = NoRequest
    /\ response_text = <<>>
    /\ json_str = NoCandidate
    /\ json_data = PyNone
    /\ response = NoResponse
    /\ stages = <<>>
    /\ invocations = 0
    /\ responses = 0

\* POST /generate-leads arrives: generate_leads runs up to agent.run, or to
\* the response it returns before that
Receive(req, gj) ==
    /\ pc = "idle"
    /\ LET r == BeforeAgent(agent, gj) IN
          /\ pc' = IF r.call THEN "invoking" ELSE "done"
          /\ stages' = r.stages
          /\ response' = r.response
          /\ invocations' = IF r.call THEN 1 ELSE 0
          /\ responses' = IF r.call THEN 0 ELSE 1
    /\ request' = req
    /\ response_text' = <<>>
    /\ json_str' = NoCandidate
    /\ json_data' = PyNone
    /\ UNCHANGED <<SERPAPI_API_KEY, pydantic, agent>>

\* agent.run returns text: extraction, decoding, validation and the response
AgentReturns(text) ==
    /\ pc = "invoking"
    /\ response_text' = text
    /\ LET r == AfterAgent(text, pydantic) IN
          /\ stages' = stages \o r.stages
          /\ json_str' = r.json_str
          /\ json_data' = r.json_data
          /\ response' = r.response
    /\ responses' = responses + 1
    /\ pc' = "done"
    /\ UNCHANGED <<SERPAPI_API_KEY, pydantic, agent, request, invocations>>

\* AgentRaises without the except clause: the exception leaves the handler
\* and the handler returns no response
AgentRaisesUncaught ==
    /\ pc = "invoking"
    /\ pc' = "done"
    /\ UNCHANGED <<SERPAPI_API_KEY, pydantic, agent, request, response_text,
                   json_str, json_data, response, stages, invocations, responses>>

\* agent.run raises: except Exception (line 144)
AgentRaises ==
    /\ pc = "invoking"
    /\ response' = ErrorResponse(500, "An internal server error occurred.")
    /\ responses' = responses + 1
    /\ pc' = "done"
    /\ UNCHANGED <<SERPAPI_API_KEY, pydantic, agent, request, response_text, json_str,
                   json_data, stages, invocations>>

\* the response is sent and the handler's frame, with its locals, is gone
Finish ==
    /\ pc = "done"
    /\ pc' = "idle"
    /\ request' = NoRequest
    /\ response_text' = <<>>
    /\ json_str' = NoCandidate
    /\ json_data' = PyNone
    /\ response' = NoResponse
    /\ stages' = <<>>
    /\ invocations' = 0
    /\ responses' = 0
    /\ UNCHANGED <<SERPAPI_API_KEY, pydantic, agent>>

Next ==
    \/ pc = "idle" /\ \E req \in Requests : \E gj \in get_json(req) : Receive(req, gj)
    \/ pc = "invoking" /\ \E text \in AgentTexts : AgentReturns(text)
    \/ AgentRaises
    \/ Finish

Spec == Init /\ [][Next]_vars

\* agent.run is a synchronous call: it returns or raises
\* the step that ends the call of agent.run, by a return or by an exception
\* (the text returned is the one the step leaves in response_text)
AgentCallEnds ==
    \/ AgentRaises
    \/ (pc = "invoking" /\ response_text' \in AgentTexts /\ AgentReturns(response_text'))

FairSpec == Spec /\ WF_vars(AgentCallEnds)

(***************************************************************************)
(* The claims.                                                             *)
(***************************************************************************)
Range(seq) == {seq[i] : i \in DOMAIN seq}

Handled == pc = "done"

\* a JSON body in which business_type and location are non-empty strings
NonEmptyText(d, key) ==
    key \in DOMAIN d.v /\ d.v[key].t = "str" /\ d.v[key].v # ""

WellFormedBody(req) ==
    /\ req.kind = "json"
    /\ req.val.t = "obj"
    /\ NonEmptyText(req.val, "business_type")
    /\ NonEmptyText(req.val, "location")

\* C1: while the agent is available, a request whose body is not a JSON
\* mapping with non-empty string business_type and location is answered 400
\* and the agent is never invoked for it.
C1_BadRequestIs400 ==
    (pc \in {"invoking", "done"} /\ AgentReady(agent) /\ ~WellFormedBody(request))
        => (pc = "done" /\ response.status = 400 /\ invocations = 0)

\* C2: without an agent (no search credential, or construction raised) every
\* POST /generate-leads is answered 503 whatever its body, and nothing else
\* of the handler runs: no parsing, invocation, extraction or validation.
C2_NotReadyIs503 ==
    /\ (~Truthy(getenv(SERPAPI_API_KEY)) => agent = "None")
    /\ (agent = "None" /\ pc # "idle") =>
          /\ pc = "done"
          /\ response.status = 503
          /\ response.keys = {"error"}
          /\ stages = <<"Init">>
          /\ invocations = 0
          /\ response_text = <<>>
          /\ json_str = NoCandidate
          /\ json_data = PyNone

\* C2's case: the credential is set, construction raised, and a request
\* with an empty JSON object as body (a 400 otherwise) has been answered
C2_Witness ==
    /\ SERPAPI_API_KEY = "serpapi-key"
    /\ agent = "None"
    /\ pc = "done"
    /\ request = [kind |-> "json", val |-> EmptyDict]
    /\ response.status = 503

DecodedLeads ==
    IF json_data.t = "obj" /\ "leads" \in DOMAIN json_data.v
          /\ json_data.v["leads"].t = "arr"
    THEN json_data.v["leads"].v
    ELSE <<>>

\* element e is a mapping that has no key f
Lacks(e, f) == e.t = "obj" /\ f \notin DOMAIN e.v

\* C4: validation is all-or-nothing: when an element of the decoded leads
\* array lacks name or source, the request is answered 502 with details that
\* hold the path of every element and field that is lacking (not only the
\* first), and no lead of the array is returned.
C4_AllOrNothing ==
    (Handled /\ \E i \in DOMAIN DecodedLeads :
                    Lacks(DecodedLeads[i], "name") \/ Lacks(DecodedLeads[i], "source"))
        => /\ response.status = 502
           /\ response.keys = {"error", "details"}
           /\ response.leads = <<>>
           /\ \A i \in DOMAIN DecodedLeads : \A f \in {"name", "source"} :
                 Lacks(DecodedLeads[i], f)
                    => <<"leads", i - 1, f>> \in Range(response.details)

\* C4's case: a valid element followed by one that lacks name and source
C4_Witness ==
    /\ Handled
    /\ Len(DecodedLeads) = 2
    /\ LeadErrors(DecodedLeads[1], 0, pydantic) = <<>>
    /\ Lacks(DecodedLeads[2], "name") /\ Lacks(DecodedLeads[2], "source")
    /\ response.status = 502
    /\ {<<"leads", 1, "name">>, <<"leads", 1, "source">>} \subseteq Range(response.details)

\* element e has key f with a value of type t
Has(e, f, t) == e.t = "obj" /\ f \in DOMAIN e.v /\ e.v[f].t = t

AllElementsWellTyped ==
    \A i \in DOMAIN DecodedLeads :
        /\ \A f \in RequiredFields : Has(DecodedLeads[i], f, "str")
        /\ \A f \in FieldNames \ RequiredFields :
              \/ Lacks(DecodedLeads[i], f)
              \/ Has(DecodedLeads[i], f, "str")
              \/ Has(DecodedLeads[i], f, "null")

C6_OptionalDefaults ==
    (Handled /\ response.status = 200)
        => /\ Len(response.leads) = Len(DecodedLeads)
           /\ \A i \in DOMAIN DecodedLeads :
                 \A f \in {"address", "phone", "website"} :
                    /\ f \in DOMAIN response.leads[i]
                    /\ Lacks(DecodedLeads[i], f)
                          => response.leads[i][f] = [t |-> "str", v |-> "N/A"]
                    /\ Has(DecodedLeads[i], f, "str")
                          => response.leads[i][f] = DecodedLeads[i].v[f]

\* C6's case: a returned lead whose input had a phone and no address
C6_Witness ==
    /\ Handled
    /\ response.status = 200
    /\ Len(DecodedLeads) = 1
    /\ Lacks(DecodedLeads[1], "address")
    /\ Has(DecodedLeads[1], "phone", "str")
    /\ response.leads[1]["address"].v = "N/A"
    /\ response.leads[1]["phone"].v = "555-0100"

\* scenario 1: prose, then a fenced json block that holds
\* {"leads":[{"name":"Acme Co","source":"http://acme.example"}]}
Scenario1Payload ==
    <<LBRACE, "\"leads\"", COLON, LBRACKET, LBRACE, "\"name\"", COLON, "\"Acme Co\"",
      COMMA, "\"source\"", COLON, "\"http://acme.example\"", RBRACE, RBRACKET, RBRACE>>

Scenario1Text == <<PROSE, WS, FENCE, TAG, WS>> \o Scenario1Payload \o <<WS, FENCE>>

\* the same with "confidence_score":"High" in the element
Scenario1ScoredPayload ==
    <<LBRACE, "\"leads\"", COLON, LBRACKET, LBRACE, "\"name\"", COLON, "\"Acme Co\"",
      COMMA, "\"confidence_score\"", COLON, "\"High\"",
      COMMA, "\"source\"", COLON, "\"http://acme.example\"", RBRACE, RBRACKET, RBRACE>>

Scenario1ScoredText ==
    <<PROSE, WS, FENCE, TAG, WS>> \o Scenario1ScoredPayload \o <<WS, FENCE>>

AcmeLead ==
    [name |-> [t |-> "str", v |-> "Acme Co"],
     address |-> [t |-> "str", v |-> "N/A"],
     phone |-> [t |-> "str", v |-> "N/A"],
     website |-> [t |-> "str", v |-> "N/A"],
     confidence_score |-> [t |-> "str", v |-> "High"],
     source |-> [t |-> "str", v |-> "http://acme.example"]]

\* C7 as stated: on the text of scenario 1 the pipeline succeeds with exactly
\* one Lead whose address, phone and website are "N/A".
C7_Scenario1Succeeds ==
    (Handled /\ response_text = Scenario1Text)
        => /\ response.status = 200
           /\ Len(response.leads) = 1
           /\ \A f \in {"address", "phone", "website"} :
                 response.leads[1][f] = [t |-> "str", v |-> "N/A"]

\* C7 as amended: on the text of scenario 1 Extract and Decode succeed on the
\* block's JSON and Validate fails, confidence_score being required: 502 with
\* the one path leads.0.confidence_score.  With "confidence_score":"High" in
\* the element the pipeline succeeds with exactly one Lead, whose address,
\* phone and website are "N/A".
C7_Scenario1NeedsScore ==
    /\ (Handled /\ response_text = Scenario1Text)
          => /\ json_str = [found |-> TRUE, json_str |-> Scenario1Payload]
             /\ Len(DecodedLeads) = 1
             /\ DOMAIN DecodedLeads[1].v = {"name", "source"}
             /\ stages = <<"Init", "ParseRequest", "Invoke", "Extract", "Decode",
                           "Validate">>
             /\ response.status = 502
             /\ response.details = << <<"leads", 0, "confidence_score">> >>
    /\ (Handled /\ response_text = Scenario1ScoredText)
          => /\ json_str = [found |-> TRUE, json_str |-> Scenario1ScoredPayload]
             /\ response.status = 200
             /\ response.leads = <<AcmeLead>>

\* C7's case: the scored text of scenario 1 has been answered
C7_Witness ==
    /\ Handled
    /\ response_text = Scenario1ScoredText
    /\ response.status = 200
    /\ Len(response.leads) = 1

\* the fenced blocks tagged json of a text that hold valid JSON, each as
\* <<p, s, e>>: the opening fence at p, the JSON text from s to e
JsonBlocks(text) ==
    UNION { { <<p, SkipWs(text, p + 2), e>> :
                e \in { k \in SkipWs(text, p + 2)..Len(text) :
                          /\ text[k] # WS
                          /\ SkipWs(text, k + 1) <= Len(text)
                          /\ text[SkipWs(text, k + 1)] = FENCE
                          /\ json_loads(SubSeq(text, SkipWs(text, p + 2), k)).ok } }
            : p \in { q \in 1..(Len(text) - 1) :
                        text[q] = FENCE /\ text[q + 1] = TAG } }

FirstFence(text, p) == text[p] = FENCE /\ \A k \in 1..(p - 1) : text[k] # FENCE

C9_FallbackSpan ==
    (Handled /\ "Extract" \in Range(stages) /\ re_search(response_text) = <<0, 0>>)
        => LET t == response_text
               opens == {i \in 1..Len(t) : t[i] = LBRACE}
               closes == {j \in 1..Len(t) : t[j] = RBRACE}
           IN  IF \E i \in opens : \E j \in closes :
                     /\ \A k \in opens : i <= k
                     /\ \A k \in closes : k <= j
                     /\ i < j
               THEN /\ json_str.found
                    /\ \E i \in opens : \E j \in closes :
                          /\ \A k \in 1..(i - 1) : t[k] # LBRACE
                          /\ \A k \in (j + 1)..Len(t) : t[k] # RBRACE
                          /\ json_str.json_str = [k \in 1..(j - i + 1) |-> t[k + i - 1]]
                    /\ "Decode" \in Range(stages)
               ELSE /\ ~json_str.found
                    /\ "Decode" \notin Range(stages)
                    /\ json_data = PyNone
                    /\ response.status = 502

\* C9's case: no fenced block and the braces { } } {: the candidate runs from
\* the first opening brace to the last closing one
C9_Witness ==
    /\ Handled
    /\ re_search(response_text) = <<0, 0>>
    /\ Len(response_text) = 4
    /\ response_text[1] = LBRACE /\ response_text[2] = RBRACE
    /\ response_text[3] = RBRACE /\ response_text[4] = LBRACE
    /\ json_str = [found |-> TRUE, json_str |-> <<LBRACE, RBRACE, RBRACE>>]

\* the stages of a request that succeeds, in order
AllStages ==
    <<"Init", "ParseRequest", "Invoke", "Extract", "Decode", "Validate", "Success">>

\* at every moment of a request: at most one agent call and one response,
\* the call only after Init and ParseRequest passed, a response of one of the
\* five statuses, 500 when the agent call raised, 200 only after all stages
C10_Linear ==
    /\ invocations \in {0, 1}
    /\ responses \in {0, 1}
    /\ pc = "invoking" =>
          /\ invocations = 1 /\ responses = 0
          /\ stages = <<"Init", "ParseRequest", "Invoke">>
    /\ invocations = 1 =>
          /\ AgentReady(agent)
          /\ Len(stages) >= 3
          /\ SubSeq(stages, 1, 3) = <<"Init", "ParseRequest", "Invoke">>
          /\ request.kind = "json" /\ request.val.t = "obj"
    /\ Handled =>
          /\ responses = 1
          /\ response.status \in {200, 400, 500, 502, 503}
          /\ \A i \in 1..Len(stages) : \A j \in 1..Len(stages) :
                (stages[i] = stages[j]) => i = j
          /\ \E n \in 1..Len(AllStages) : stages = SubSeq(AllStages, 1, n)
          /\ (invocations = 1 /\ "Extract" \notin Range(stages))
                => response.status = 500
          /\ response.status = 200 => (stages = AllStages /\ invocations = 1)

=============================================================================
